---- MODULE Spec2Model ----
(***************************************************************************)
(* Model of the KQCircuits fragment:                                       *)
(*   src/pcells/waveguide_cop.py   up_mod, arc, WaveguideCopCurve and      *)
(*                                 WaveguideCop (the path decomposer)      *)
(*   src/klayout_package/.../elmer_solution.py   the Elmer parameter sets  *)
(*                                                                         *)
(* Numbers.  Angles are integers in units of pi/(4*Eighth), so that pi/4,  *)
(* pi/2, pi and 2*pi are the integers Eighth, Quarter, Half and TwoPi.     *)
(* Lengths and coordinates are the reals (a + b*sqrt(2))/2 with integer a  *)
(* and b, written [a |-> a, b |-> b]: this set holds the integers and the  *)
(* sines and cosines of every multiple of pi/4, and the code's arithmetic  *)
(* stays inside it for paths whose segments are parallel to the axes.      *)
(* Arithmetic is that of the reals; IEEE rounding (tan(pi/4) is            *)
(* 0.9999999999999999 in a double) is not modelled, except where it        *)
(* decides whether a division raises: math.sin and math.tan return exactly *)
(* 0.0 only at the argument 0.0, a tiny non-zero number at pi, and         *)
(* math.tan a huge finite number at pi/2.                                  *)
(***************************************************************************)
EXTENDS Integers, Sequences, FiniteSets, TLC

\* ------------------------------------------------------------------ bounds
\* Angular resolution: units per pi/4.
Eighth == 2
\* Largest radius handed to arc in the arc specification.
MaxR == 2
\* Start and stop angles of arc range over -MaxTurns*2*pi .. MaxTurns*2*pi.
MaxTurns == 1

Quarter == 2 * Eighth
Half == 4 * Eighth
TwoPi == 8 * Eighth

\* Sample densities n for which the step 2*pi/n is a whole number of units.
DensitySet == {k \in 1..TwoPi : TwoPi % k = 0}

AngleSet == (0 - MaxTurns * TwoPi)..(MaxTurns * TwoPi)

Abs(k) == IF k < 0 THEN 0 - k ELSE k

\* ------------------------------------------------ reals (a + b*sqrt(2))/2
N(k) == [a |-> 2 * k, b |-> 0]
Zero == N(0)
NAdd(x, y) == [a |-> x.a + y.a, b |-> x.b + y.b]
NNeg(x) == [a |-> 0 - x.a, b |-> 0 - x.b]
NSub(x, y) == NAdd(x, NNeg(y))
NMul(x, y) ==
  [a |-> (x.a * y.a + 2 * x.b * y.b) \div 2, b |-> (x.a * y.b + x.b * y.a) \div 2]
\* x / y for y # 0: x * conj(y) / norm(y).
NDiv(x, y) ==
  LET nrm == y.a * y.a - 2 * y.b * y.b
      s == IF nrm < 0 THEN 0 - 1 ELSE 1
      pa == 2 * (x.a * y.a - 2 * x.b * y.b)
      pb == 2 * (x.b * y.a - x.a * y.b)
  IN [a |-> (s * pa) \div (s * nrm), b |-> (s * pb) \div (s * nrm)]
IntSign(k) == IF k > 0 THEN 1 ELSE IF k < 0 THEN 0 - 1 ELSE 0
NSign(x) ==
  IF x.a >= 0 /\ x.b >= 0 THEN (IF x.a = 0 /\ x.b = 0 THEN 0 ELSE 1)
  ELSE IF x.a <= 0 /\ x.b <= 0 THEN 0 - 1
  ELSE IF x.a > 0 THEN IntSign(x.a * x.a - 2 * x.b * x.b)
  ELSE IntSign(2 * x.b * x.b - x.a * x.a)
NAbs(x) == IF NSign(x) < 0 THEN NNeg(x) ELSE x
NLess(x, y) == NSign(NSub(x, y)) < 0

\* ------------------------------------------------------------ math.sin/cos
\* Sine of m*pi/4, m in 0..7.
SinTable ==
  << [a |-> 0, b |-> 1], [a |-> 2, b |-> 0], [a |-> 0, b |-> 1], [a |-> 0, b |-> 0],
     [a |-> 0, b |-> 0 - 1], [a |-> 0 - 2, b |-> 0], [a |-> 0, b |-> 0 - 1], [a |-> 0, b |-> 0] >>
\* math.sin and math.cos of an angle that is a multiple of pi/4 (real value).
Sin(k) == LET m == (k \div Eighth) % 8 IN IF m = 0 THEN Zero ELSE SinTable[m]
Cos(k) == Sin(k + Quarter)

\* ------------------------------------------------------------------ up_mod
up_mod(a, per) ==
  IF a * per > 0 THEN a % per ELSE a - per * (a \div per)

\* --------------------------------------------------------------------- arc
\* pya.DPoint(R*cos(alpha), R*sin(alpha)): the point of the plane at distance
\* |R| from the origin; two angles give the same point iff they agree mod 2*pi
\* (for R < 0 the point lies opposite, for R = 0 it is the origin).
PolarPoint(R, alpha) ==
  IF R = 0 THEN [r |-> 0, ang |-> 0]
  ELSE IF R > 0 THEN [r |-> R, ang |-> alpha % TwoPi]
  ELSE [r |-> 0 - R, ang |-> (alpha + Half) % TwoPi]

arc_alpha_rel(start, stop) == up_mod(stop - start, TwoPi)

\* Variant: the step always counts upwards, whichever direction is shorter.
arc_alpha_step_up(start, stop, n) == TwoPi \div n

arc_alpha_step(start, stop, n) ==
  (TwoPi \div n) * (IF arc_alpha_rel(start, stop) > Half THEN 0 - 1 ELSE 1)

arc_n_steps(start, stop, n) ==
  LET alpha_rel == arc_alpha_rel(start, stop)
      alpha_step == arc_alpha_step(start, stop, n)
  IN IF alpha_rel > Half
       THEN (TwoPi - alpha_rel) \div Abs(alpha_step)
       ELSE alpha_rel \div Abs(alpha_step)

\* The for loop of arc: iterations i..n_steps, from the angle alpha.
RECURSIVE arc_loop(_, _, _, _, _, _, _)
arc_loop(R, i, n_steps, alpha, alpha_step, pts, last) ==
  IF i > n_steps THEN [pts |-> pts, last |-> last]
  ELSE arc_loop(R, i + 1, n_steps, alpha + alpha_step, alpha_step,
                Append(pts, PolarPoint(R, alpha)), alpha + alpha_step)

\* The test that decides whether the point at stop is appended.
arc_force(last, stop) == last # stop

arc(R, start, stop, n) ==
  LET lp == arc_loop(R, 0, arc_n_steps(start, stop, n), start,
                     arc_alpha_step(start, stop, n), << >>, start)
  IN IF arc_force(lp.last, stop)
       THEN Append(lp.pts, PolarPoint(R, stop))
       ELSE lp.pts

\* ------------------------------------------------------- points, vectors
Pt(x, y) == [x |-> x, y |-> y]
PAdd(p, q) == Pt(NAdd(p.x, q.x), NAdd(p.y, q.y))
PSub(p, q) == Pt(NSub(p.x, q.x), NSub(p.y, q.y))
PScale(p, s) == Pt(NMul(p.x, s), NMul(p.y, s))

Sqrt2 == [a |-> 0, b |-> 2]

\* DVector.abs / DPoint.distance: sqrt(x*x + y*y), for a vector along one of
\* the eight directions k*pi/4.
VAbs(v) ==
  CASE v.x = Zero -> NAbs(v.y)
    [] v.y = Zero -> NAbs(v.x)
    [] NAbs(v.x) = NAbs(v.y) -> NMul(NAbs(v.x), Sqrt2)
distance(p, q) == VAbs(PSub(q, p))

\* math.atan2(y, x), in angle units, for a vector along one of the eight
\* directions; atan2(0, 0) is 0 and atan2(0, x) is +pi for x < 0.
atan2(y, x) ==
  LET sx == NSign(x)
      sy == NSign(y)
  IN CASE sy = 0 /\ sx >= 0 -> 0
       [] sy = 0 /\ sx < 0 -> Half
       [] sx = 0 /\ sy > 0 -> Quarter
       [] sx = 0 /\ sy < 0 -> 0 - Quarter
       [] sx # 0 /\ sy # 0 /\ NAbs(x) = NAbs(y) ->
            sy * (IF sx > 0 THEN Eighth ELSE Quarter + Eighth)

\* DVector.vprod_sign: the sign of the cross product v1 x v2.
vprod_sign(v1, v2) == NSign(NSub(NMul(v1.x, v2.y), NMul(v1.y, v2.x)))

\* An angle in radians (units) times 180/pi: whole degrees.
Degrees(k) == (k * 45) \div Eighth
\* Cosine and sine of a whole number of degrees that is a multiple of 45.
CosDeg(d) == Cos((d * Eighth) \div 45)
SinDeg(d) == Sin((d * Eighth) \div 45)

\* pya.DCplxTrans(1, angle, False, disp): rotate by angle degrees, then move.
DCplxTrans(angle, disp) == [rot |-> angle, disp |-> disp]
Apply(t, p) ==
  PAdd(t.disp,
       Pt(NSub(NMul(CosDeg(t.rot), p.x), NMul(SinDeg(t.rot), p.y)),
          NAdd(NMul(SinDeg(t.rot), p.x), NMul(CosDeg(t.rot), p.y))))

\* The Cartesian coordinates of a point of arc whose angle is a multiple of pi/4.
PolarToXY(p) == Pt(NMul(N(p.r), Cos(p.ang)), NMul(N(p.r), Sin(p.ang)))

\* ------------------------------------------------------- WaveguideCopCurve
margin == 5

\* WaveguideCopCurve.produce_impl: the three polygons, each the forward arc at
\* one radius followed by the backward arc at another (a is even: a/2 is whole).
curve_ring(R1, R2, alpha, n) ==
  [R1 |-> R1, R2 |-> R2, split |-> Len(arc(R1, 0, alpha, n)),
   pts |-> arc(R1, 0, alpha, n) \o arc(R2, alpha, 0, n)]

\* The polygons in the order inserted: left gap and right gap on layer lo,
\* protection on layer lp.  Each carries, beside its points, the two radii and
\* the number of points of its forward arc.
curve_produce_impl(alpha, ru, a, b, n) ==
  << [layer |-> "lo", ring |-> curve_ring(ru - a \div 2, ru - a \div 2 - b, alpha, n)],
     [layer |-> "lo", ring |-> curve_ring(ru + a \div 2, ru + a \div 2 + b, alpha, n)],
     [layer |-> "lp", ring |-> curve_ring(ru - a \div 2 - b - margin,
                                          ru + a \div 2 + b + margin, alpha, n)] >>

\* Cross sections (a, b) and bend radii the curved cell is drawn with: the
\* scenario a=10, b=5, ru=2 (radii below zero occur) and one with every
\* radius positive.
CrossSections == {[a |-> 10, b |-> 5], [a |-> 2, b |-> 1]}
CurveRuSet == {2, 9}

\* Where the centre line of a straight cell ends: its rails run from x = 0 to
\* x = l in the cell, which is placed by trans.
straight_end(inst) == Apply(inst.trans, Pt(inst.l, Zero))

\* Where the arc of radius ru of a placed curved cell begins and ends: the
\* first and the last point of arc(ru, 0, alpha, n), placed by trans.
fillet_arc(inst) == arc(inst.ru, 0, inst.alpha, inst.n)
fillet_begin(inst) == Apply(inst.trans, PolarToXY(fillet_arc(inst)[1]))
fillet_end(inst) ==
  Apply(inst.trans, PolarToXY(fillet_arc(inst)[Len(fillet_arc(inst))]))

\* ----------------------------------------------------------- WaveguideCop
\* Longest segment of a generated path, most waypoints, largest bend radius.
MaxLen == 2
MaxPts == 3
MaxRu == 2

\* One step of a path: along an axis by 1..MaxLen, or no move at all (two
\* coincident waypoints).
Steps ==
  {Pt(N(d * k), Zero) : d \in {0 - 1, 1}, k \in 1..MaxLen}
    \cup {Pt(Zero, N(d * k)) : d \in {0 - 1, 1}, k \in 1..MaxLen}
    \cup {Pt(Zero, Zero)}

RECURSIVE PathsOf(_)
PathsOf(k) ==
  IF k = 1 THEN {<< Pt(Zero, Zero) >>}
  ELSE {Append(q, PAdd(q[Len(q)], st)) : q \in PathsOf(k - 1), st \in Steps}

\* Paths of MaxPts + 1 waypoints whose steps all have the length MaxLen: every
\* sequence of MaxPts directions.
LongSteps ==
  {Pt(N(d * MaxLen), Zero) : d \in {0 - 1, 1}} \cup {Pt(Zero, N(d * MaxLen)) : d \in {0 - 1, 1}}

RECURSIVE LongPathsOf(_)
LongPathsOf(k) ==
  IF k = 1 THEN {<< Pt(Zero, Zero) >>}
  ELSE {Append(q, PAdd(q[Len(q)], st)) : q \in LongPathsOf(k - 1), st \in LongSteps}

\* The scenario of the specification: [(0,0), (10,0), (10,10)].
ScenarioPath == << Pt(N(0), N(0)), Pt(N(10), N(0)), Pt(N(10), N(10)) >>

PathSet ==
  UNION {PathsOf(k) : k \in 2..MaxPts} \cup LongPathsOf(MaxPts + 1) \cup {ScenarioPath}

\* Arc densities and the cross section the path cell is drawn with.
PathDensitySet == {1, 4}
PathCrossSection == [a |-> 10, b |-> 5]

\* points[j], j counted from 0 as in the code.
P(points, j) == points[j + 1]

corner_v1(points, i) == PSub(P(points, i + 1), P(points, i))
corner_v2(points, i) == PSub(P(points, i + 2), P(points, i + 1))
corner_alpha1(points, i) == LET v1 == corner_v1(points, i) IN atan2(v1.y, v1.x)
corner_alpha2(points, i) == LET v2 == corner_v2(points, i) IN atan2(v2.y, v2.x)
\* alpha2 - alpha1, not reduced mod 2*pi: it lies in -3*pi/2 .. 3*pi/2.
corner_dalpha(points, i) == corner_alpha2(points, i) - corner_alpha1(points, i)
\* (pi - (alpha2 - alpha1))/2
corner_theta(points, i) == (Half - corner_dalpha(points, i)) \div 2
corner_sign(points, i) == vprod_sign(corner_v1(points, i), corner_v2(points, i))

\* x / math.sin(theta) and x / math.tan(theta) for theta # 0.  At theta = pi
\* the double is tiny, not zero, and x is 0 there (the vectors are
\* antiparallel, their cross product is 0): the quotient is 0.  At
\* theta = pi/2 math.tan is about 1.6e16 and the quotient is 0 to rounding.
DivSin(x, theta) ==
  CASE Sin(theta) # Zero -> NDiv(x, Sin(theta))
    [] Sin(theta) = Zero /\ x = Zero -> Zero
DivTan(x, theta) ==
  CASE Cos(theta) = Zero -> Zero
    [] Cos(theta) # Zero /\ Sin(theta) # Zero -> NDiv(x, NDiv(Sin(theta), Cos(theta)))
    [] Sin(theta) = Zero /\ x = Zero -> Zero

\* Line 182 raises ZeroDivisionError when math.sin returns exactly 0.0, which
\* is when alpha2 - alpha1 is exactly math.pi.
raises_at_distcorner(points, i) == corner_theta(points, i) = 0
\* Line 200 raises ZeroDivisionError when v2 has length zero.
raises_at_segment_last(points, i) == VAbs(corner_v2(points, i)) = Zero

corner_alphacorner(points, i) == corner_theta(points, i) + corner_alpha2(points, i)
corner_distcorner(points, i, radius) ==
  DivSin(N(corner_sign(points, i) * radius), corner_theta(points, i))
corner_center(points, i, radius) ==
  LET ac == corner_alphacorner(points, i)
      dc == corner_distcorner(points, i, radius)
  IN PAdd(P(points, i + 1), Pt(NMul(Cos(ac), dc), NMul(Sin(ac), dc)))
corner_cut(points, i, radius) ==
  DivTan(N(corner_sign(points, i) * radius), corner_theta(points, i))

\* Variant: the quarter turn of the curved cell taken the other way.
curve_rotation_flipped(points, i) ==
  Degrees(corner_alpha1(points, i)) + corner_sign(points, i) * 90

\* The rotation, in degrees, the curved cell is placed with.
curve_rotation(points, i) ==
  Degrees(corner_alpha1(points, i)) - corner_sign(points, i) * 90

\* The angle, in degrees, of a straight cell from segment_start to segment_end.
straight_angle(segment_start, segment_end) ==
  LET d == PSub(segment_end, segment_start) IN Degrees(atan2(d.y, d.x))

\* The straight cell placed before corner i.
straight_before(points, i, radius, xs, segment_start) ==
  [cell |-> "Waveguide streight", a |-> xs.a, b |-> xs.b,
   l |-> NSub(distance(segment_start, P(points, i + 1)), corner_cut(points, i, radius)),
   alpha |-> 0, n |-> 0, ru |-> 0,
   trans |-> DCplxTrans(straight_angle(segment_start, P(points, i + 1)), segment_start)]

\* The point the next straight starts from.
next_segment_last(points, i, radius) ==
  LET v2 == corner_v2(points, i)
      unit == Pt(NDiv(v2.x, VAbs(v2)), NDiv(v2.y, VAbs(v2)))
  IN PAdd(P(points, i + 1), PScale(unit, corner_cut(points, i, radius)))

\* The curved cell placed at corner i.
curve_at(points, i, radius, xs, density) ==
  [cell |-> "Waveguide curved", a |-> xs.a, b |-> xs.b, l |-> Zero,
   alpha |-> corner_dalpha(points, i), n |-> density, ru |-> radius,
   trans |-> DCplxTrans(curve_rotation(points, i), corner_center(points, i, radius))]

\* Variant: the last straight measured to the waypoint before the final one.
straight_last_short(points, xs, segment_start) ==
  [cell |-> "Waveguide streight", a |-> xs.a, b |-> xs.b,
   l |-> distance(segment_start, points[Len(points) - 1]),
   alpha |-> 0, n |-> 0, ru |-> 0,
   trans |-> DCplxTrans(straight_angle(segment_start, points[Len(points)]), segment_start)]

\* The last straight cell: from segment_last to the final waypoint.
straight_last(points, xs, segment_start) ==
  [cell |-> "Waveguide streight", a |-> xs.a, b |-> xs.b,
   l |-> distance(segment_start, points[Len(points)]),
   alpha |-> 0, n |-> 0, ru |-> 0,
   trans |-> DCplxTrans(straight_angle(segment_start, points[Len(points)]), segment_start)]

\* The debug text of line 184.
corner_text(points, i, radius) ==
  [dalpha |-> corner_dalpha(points, i), distcorner |-> corner_distcorner(points, i, radius),
   sign |-> corner_sign(points, i), at |-> corner_center(points, i, radius)]

\* ------------------------------------------------------- elmer_solution
\* A Python value: the name of its type and its content, as the sequence of
\* its elements written out (of the one element, for a scalar).
V(t, v) == [t |-> t, v |-> v]
PyStr(x) == V("str", << x >>)
PyInt(x) == V("int", << x >>)
PyFloat(x) == V("float", << x >>)
PyBool(x) == V("bool", << x >>)
EmptyDict == V("dict", << >>)

\* The field of the base class Solution that get_solution_data renames.
SolutionFields == ("name" :> PyStr(""))

ElmerSolutionFields ==
  SolutionFields @@
  ("p_element_order" :> PyInt("3")) @@ ("percent_error" :> PyFloat("0.005")) @@
  ("max_error_scale" :> PyFloat("2.0")) @@ ("max_outlier_fraction" :> PyFloat("1e-3")) @@
  ("maximum_passes" :> PyInt("1")) @@ ("minimum_passes" :> PyInt("1")) @@
  ("is_axisymmetric" :> PyBool("False")) @@ ("mesh_levels" :> PyInt("1")) @@
  ("mesh_size" :> EmptyDict)

ElmerVectorHelmholtzSolutionFields ==
  ElmerSolutionFields @@
  ("frequency" :> PyInt("5")) @@ ("frequency_batch" :> PyInt("3")) @@
  ("sweep_type" :> PyStr("explicit")) @@ ("max_delta_s" :> PyFloat("0.01")) @@
  ("london_penetration_depth" :> PyInt("0")) @@
  ("quadratic_approximation" :> PyBool("False")) @@ ("second_kind_basis" :> PyBool("False")) @@
  ("use_av" :> PyBool("False")) @@ ("conductivity" :> PyInt("0")) @@
  ("nested_iteration" :> PyBool("False")) @@
  ("convergence_tolerance" :> PyFloat("1.0e-10")) @@ ("max_iterations" :> PyInt("2000"))

ElmerCapacitanceSolutionFields ==
  ElmerSolutionFields @@
  ("linear_system_method" :> PyStr("bicgstab")) @@ ("integrate_energies" :> PyBool("False"))

ElmerCrossSectionSolutionFields ==
  ElmerSolutionFields @@
  ("linear_system_method" :> PyStr("bicgstab")) @@ ("integrate_energies" :> PyBool("False")) @@
  ("boundary_conditions" :> EmptyDict)

\* The classes get_elmer_solution tries, in its order.
SolutionClasses ==
  << "ElmerVectorHelmholtzSolution", "ElmerCapacitanceSolution", "ElmerCrossSectionSolution" >>

\* The class attribute tool.
class_tool(c) ==
  CASE c = "ElmerSolution" -> ""
    [] c = "ElmerVectorHelmholtzSolution" -> "wave_equation"
    [] c = "ElmerCapacitanceSolution" -> "capacitance"
    [] c = "ElmerCrossSectionSolution" -> "cross-section"

class_fields(c) ==
  CASE c = "ElmerVectorHelmholtzSolution" -> ElmerVectorHelmholtzSolutionFields
    [] c = "ElmerCapacitanceSolution" -> ElmerCapacitanceSolutionFields
    [] c = "ElmerCrossSectionSolution" -> ElmerCrossSectionSolutionFields

\* Variant: only a scalar is wrapped, any other value is kept as given.
post_init_frequency_scalar_only(f) ==
  IF f.t \in {"float", "int", "bool"} THEN V("list", f.v) ELSE f

\* ElmerVectorHelmholtzSolution.__post_init__ on the value of frequency: a
\* float or an int (bool is an int) is wrapped in a list, a list is kept, any
\* other value goes through list().
post_init_frequency(f) ==
  IF f.t \in {"float", "int", "bool"} THEN V("list", f.v)
  ELSE IF f.t # "list" THEN V("list", f.v)
  ELSE f
\* list(x) raises TypeError for a value that is not iterable.
Iterable(t) == t \in {"list", "tuple", "str", "dict"}
post_init_raises(f) == f.t \notin {"float", "int", "bool", "list"} /\ ~Iterable(f.t)

\* Variant: a tag of no class falls back to the capacitance class.
RECURSIVE find_class_defaulting(_, _)
find_class_defaulting(tool, k) ==
  IF k > Len(SolutionClasses) THEN "ElmerCapacitanceSolution"
  ELSE IF tool = class_tool(SolutionClasses[k]) THEN SolutionClasses[k]
  ELSE find_class_defaulting(tool, k + 1)

\* The loop of get_elmer_solution: the first class whose tool is the tag, or
\* "none" when the loop ends without one.
RECURSIVE find_class(_, _)
find_class(tool, k) ==
  IF k > Len(SolutionClasses) THEN "none"
  ELSE IF tool = class_tool(SolutionClasses[k]) THEN SolutionClasses[k]
  ELSE find_class(tool, k + 1)

\* c(**solution_params): the dataclass constructor, then __post_init__.
\* The outcome is the instance, or the exception raised.
construct(c, params) ==
  LET fields == class_fields(c)
      given == [k \in DOMAIN fields |-> IF k \in DOMAIN params THEN params[k] ELSE fields[k]]
  IN IF ~(DOMAIN params \subseteq DOMAIN fields)
       THEN [exc |-> "TypeError", sol |-> << >>]
     ELSE IF c = "ElmerVectorHelmholtzSolution"
       THEN IF post_init_raises(given["frequency"])
              THEN [exc |-> "TypeError", sol |-> << >>]
              ELSE [exc |-> "none",
                    sol |-> << [cls |-> c,
                                dict |-> [given EXCEPT !["frequency"] =
                                                 post_init_frequency(given["frequency"])]] >>]
     ELSE [exc |-> "none", sol |-> << [cls |-> c, dict |-> given] >>]

get_elmer_solution(tool, params) ==
  LET c == find_class(tool, 1)
  IN IF c = "none" THEN [exc |-> "ValueError", sol |-> << >>]
     ELSE construct(c, params)

\* Variant: solution_name is added and name is left in the mapping.
get_solution_data_keeping_name(obj) ==
  [k \in DOMAIN obj.dict \cup {"tool", "solution_name"} |->
     IF k = "tool" THEN PyStr(class_tool(obj.cls))
     ELSE IF k = "solution_name" THEN obj.dict["name"]
     ELSE obj.dict[k]]

\* ElmerSolution.get_solution_data.
get_solution_data(obj) ==
  LET withTool == [k \in DOMAIN obj.dict \cup {"tool"} |->
                     IF k = "tool" THEN PyStr(class_tool(obj.cls)) ELSE obj.dict[k]]
  IN [k \in (DOMAIN withTool \ {"name"}) \cup {"solution_name"} |->
        IF k = "solution_name" THEN withTool["name"] ELSE withTool[k]]

\* The tags get_elmer_solution is called with ("eigenmode" and "Capacitance"
\* are tags of no class) and the keyword arguments.
ToolTags == {"wave_equation", "capacitance", "cross-section", "", "eigenmode", "Capacitance"}
FrequencyValues ==
  {PyInt("5"), PyFloat("4.5"), V("list", << "1", "2" >>),
   V("tuple", << "1", "2" >>), V("NoneType", << >>)}
\* The argument tool: a tag given by the caller, or the default of line 153.
CallArgs ==
  {[given |-> TRUE, tool |-> t] : t \in ToolTags}
    \cup {[given |-> FALSE, tool |-> "capacitance"]}
NoParams == [k \in {} |-> PyStr("")]
ParamSets ==
  {nm @@ fr @@ ie :
     nm \in {NoParams, ("name" :> PyStr("sim1"))},
     fr \in {NoParams} \cup {("frequency" :> f) : f \in FrequencyValues},
     ie \in {NoParams, ("integrate_energies" :> PyBool("True"))}}
\* The assignments made to the fields of an instance.
Assignments ==
  {[field |-> "frequency", value |-> f] : f \in FrequencyValues}
    \cup {[field |-> "name", value |-> PyStr("sim2")],
          [field |-> "p_element_order", value |-> PyInt("1")]}

VARIABLES
  pc,            \* where the running call stands
  arcArgs,       \* arc: R, start, stop, n
  arcPts,        \* arc: the list returned
  curveArgs,     \* WaveguideCopCurve: alpha, ru, a, b, n
  curveShapes,   \* WaveguideCopCurve: the polygons inserted
  wg,            \* WaveguideCop: path (points), ru, n and the cross section
  i,             \* WaveguideCop.produce_impl: the loop index
  segment_last,  \* WaveguideCop.produce_impl: where the next straight starts
  insts,         \* WaveguideCop: the cell instances inserted, in order
  texts,         \* WaveguideCop: the debug texts inserted
  exc,           \* the exception that ended the call, or "none"
  call,          \* get_elmer_solution: the arguments of the call made
  sol,           \* the parameter set constructed: << >> or << [cls, dict] >>
  solData,       \* the mapping get_solution_data returned last: << >> or << m >>
  assigned,      \* the fields of sol assigned to since its construction
  op             \* the operation on the parameter set that ran last

vars ==
  << pc, arcArgs, arcPts, curveArgs, curveShapes, wg, i, segment_last, insts, texts, exc,
     call, sol, solData, assigned, op >>

NoArgs == [R |-> 0, start |-> 0, stop |-> 0, n |-> 0]
NoCurve == [alpha |-> 0, ru |-> 0, a |-> 0, b |-> 0, n |-> 0]
NoWg == [path |-> << >>, ru |-> 0, n |-> 0, xs |-> [a |-> 0, b |-> 0]]
Origin == Pt(Zero, Zero)

arcIdle == arcArgs = NoArgs /\ arcPts = << >>
curveIdle == curveArgs = NoCurve /\ curveShapes = << >>
wgIdle == wg = NoWg /\ i = 0 /\ segment_last = Origin /\ insts = << >> /\ texts = << >>

arcVars == << arcArgs, arcPts >>
curveVars == << curveArgs, curveShapes >>
wgVars == << wg, i, segment_last, insts, texts >>
elmerVars == << call, sol, solData, assigned, op >>

NoCall == [given |-> FALSE, tool |-> "", params |-> << >>]
elmerIdle ==
  call = NoCall /\ sol = << >> /\ solData = << >> /\ assigned = {} /\ op = "none"

\* ---------------------------------------------------------------- arc calls
InitArc ==
  /\ pc = "arc"
  /\ arcArgs \in [R : 1..MaxR, start : AngleSet, stop : AngleSet, n : DensitySet]
  /\ arcPts = << >>
  /\ curveIdle /\ wgIdle /\ exc = "none" /\ elmerIdle

ArcCall ==
  /\ pc = "arc"
  /\ arcPts' = arc(arcArgs.R, arcArgs.start, arcArgs.stop, arcArgs.n)
  /\ pc' = "arc_returned"
  /\ UNCHANGED << arcArgs, curveVars, wgVars, exc, elmerVars >>

NextArc == ArcCall

SpecArc == InitArc /\ [][NextArc]_vars

\* ------------------------------------------------- curved cell production
InitCurve ==
  /\ pc = "curve"
  /\ \E alpha \in AngleSet, radius \in CurveRuSet, xs \in CrossSections, n \in DensitySet :
        curveArgs = [alpha |-> alpha, ru |-> radius, a |-> xs.a, b |-> xs.b, n |-> n]
  /\ curveShapes = << >>
  /\ arcIdle /\ wgIdle /\ exc = "none" /\ elmerIdle

CurveProduce ==
  /\ pc = "curve"
  /\ curveShapes' = curve_produce_impl(curveArgs.alpha, curveArgs.ru, curveArgs.a,
                                       curveArgs.b, curveArgs.n)
  /\ pc' = "curve_produced"
  /\ UNCHANGED << arcVars, curveArgs, wgVars, exc, elmerVars >>

NextCurve == CurveProduce

SpecCurve == InitCurve /\ [][NextCurve]_vars

\* ------------------------------------------- WaveguideCop.produce_impl
InitPath ==
  /\ pc = "produce"
  /\ \E path \in PathSet, radius \in 1..MaxRu, n \in PathDensitySet :
        wg = [path |-> path, ru |-> radius, n |-> n, xs |-> PathCrossSection]
  /\ i = 0 /\ segment_last = Origin /\ insts = << >> /\ texts = << >>
  /\ arcIdle /\ curveIdle /\ exc = "none" /\ elmerIdle

\* Lines 170-173: read the points, start at the first.
ProduceBegin ==
  /\ pc = "produce"
  /\ segment_last' = P(wg.path, 0)
  /\ i' = 0
  /\ pc' = "loop"
  /\ UNCHANGED << arcVars, curveVars, wg, insts, texts, exc, elmerVars >>

\* Lines 174-212: one iteration of the loop over the interior waypoints.
ProduceCorner ==
  /\ pc = "loop"
  /\ i < Len(wg.path) - 2
  /\ IF raises_at_distcorner(wg.path, i)
       THEN /\ pc' = "raised"
            /\ exc' = "ZeroDivisionError"
            /\ UNCHANGED << i, segment_last, insts, texts >>
       ELSE LET straight == straight_before(wg.path, i, wg.ru, wg.xs, segment_last)
            IN /\ texts' = Append(texts, corner_text(wg.path, i, wg.ru))
               /\ IF raises_at_segment_last(wg.path, i)
                    THEN /\ insts' = Append(insts, straight)
                         /\ pc' = "raised"
                         /\ exc' = "ZeroDivisionError"
                         /\ UNCHANGED << i, segment_last >>
                    ELSE /\ insts' = insts \o << straight,
                                                 curve_at(wg.path, i, wg.ru, wg.xs, wg.n) >>
                         /\ segment_last' = next_segment_last(wg.path, i, wg.ru)
                         /\ i' = i + 1
                         /\ UNCHANGED << pc, exc >>
  /\ UNCHANGED << arcVars, curveVars, wg, elmerVars >>

\* Lines 214-227: the last straight segment.
ProduceLast ==
  /\ pc = "loop"
  /\ i >= Len(wg.path) - 2
  /\ insts' = Append(insts, straight_last(wg.path, wg.xs, segment_last))
  /\ pc' = "done"
  /\ UNCHANGED << arcVars, curveVars, wg, i, segment_last, texts, exc, elmerVars >>

NextPath == ProduceBegin \/ ProduceCorner \/ ProduceLast

SpecPath == InitPath /\ [][NextPath]_vars

\* ------------------------------------------------- Elmer parameter sets
InitElmer ==
  /\ pc = "elmer"
  /\ elmerIdle
  /\ arcIdle /\ curveIdle /\ wgIdle /\ exc = "none"

\* get_elmer_solution(tool, **params), or get_elmer_solution(**params) with
\* the default tool "capacitance".
ElmerGet ==
  /\ pc = "elmer" /\ op = "none"
  /\ \E c \in CallArgs, params \in ParamSets :
       LET got == get_elmer_solution(c.tool, params)
       IN /\ call' = [given |-> c.given, tool |-> c.tool, params |-> params]
          /\ sol' = got.sol
          /\ exc' = got.exc
  /\ op' = "get_elmer_solution"
  /\ UNCHANGED << pc, arcVars, curveVars, wgVars, solData, assigned >>

\* obj.field = value: the dataclasses are not frozen, the value is stored as given.
ElmerSetAttr ==
  /\ pc = "elmer" /\ sol # << >>
  /\ \E asg \in Assignments :
       /\ asg.field \in DOMAIN sol[1].dict
       /\ sol' = << [sol[1] EXCEPT !.dict[asg.field] = asg.value] >>
       /\ assigned' = assigned \cup {asg.field}
  /\ op' = "setattr"
  /\ UNCHANGED << pc, arcVars, curveVars, wgVars, exc, call, solData >>

\* obj.get_solution_data()
ElmerGetData ==
  /\ pc = "elmer" /\ sol # << >>
  /\ solData' = << get_solution_data(sol[1]) >>
  /\ op' = "get_solution_data"
  /\ UNCHANGED << pc, arcVars, curveVars, wgVars, exc, call, sol, assigned >>

NextElmer == ElmerGet \/ ElmerSetAttr \/ ElmerGetData

SpecElmer == InitElmer /\ [][NextElmer]_vars

\* ------------------------------------------------------------ everything
Init == InitArc \/ InitCurve \/ InitPath \/ InitElmer
Next == NextArc \/ NextCurve \/ NextPath \/ NextElmer
Spec == Init /\ [][Next]_vars

\* =================================================================== claims

\* The shortest angular distance between the angles s and e.
ShortestSweep(s, e) ==
  LET u == (e - s) % TwoPi IN IF u > Half THEN TwoPi - u ELSE u

\* How far the j-th point of pts lies from the angle s in the direction d.
SweepOffset(pts, s, d, j) == ((pts[j].ang - s) * d) % TwoPi

\* The points of pts never step back in the direction d, counted from s.
Monotone(pts, s, d) ==
  \A j \in 1..(Len(pts) - 1) : SweepOffset(pts, s, d, j) <= SweepOffset(pts, s, d, j + 1)

\* C1: arc returns a non-empty list of points at distance R whose first point
\* is at the angle start and whose last point is at the angle stop (mod 2*pi),
\* and which advances monotonically in a shorter direction from start to stop:
\* the angle swept is the shortest angular distance, at most pi, and zero
\* (coincident points) when start and stop agree mod 2*pi.
C1_ArcShorterDirection ==
  pc = "arc_returned" =>
    LET s == arcArgs.start
        e == arcArgs.stop
        D == ShortestSweep(s, e)
        last == Len(arcPts)
    IN /\ last >= 1
       /\ \A j \in 1..last : arcPts[j].r = arcArgs.R
       /\ arcPts[1].ang = s % TwoPi
       /\ arcPts[last].ang = e % TwoPi
       /\ D <= Half
       /\ \E d \in {0 - 1, 1} :
            /\ ((e - s) * d) % TwoPi = D
            /\ Monotone(arcPts, s, d)
            /\ SweepOffset(arcPts, s, d, last) = D
       /\ (D = 0 => \A j \in 1..last : arcPts[j] = arcPts[1])

\* C1 witness: a returned arc that chose the negative direction over more than
\* one step, and one whose start and stop agree mod 2*pi without being equal.
C1_Witness ==
  /\ pc = "arc_returned"
  /\ \/ /\ (arcArgs.stop - arcArgs.start) % TwoPi > Half
        /\ Len(arcPts) >= 3
     \/ /\ arcArgs.stop # arcArgs.start
        /\ (arcArgs.stop - arcArgs.start) % TwoPi = 0

\* C6: arc returns n_steps+1 points, without a repeated last point, when the
\* shortest sweep is a whole number of steps, and n_steps+2 points otherwise
\* (n_steps = floor(shortest sweep / (2*pi/n))).
C6_ArcPointCount ==
  pc = "arc_returned" =>
    LET D == ShortestSweep(arcArgs.start, arcArgs.stop)
        ns == (D * arcArgs.n) \div TwoPi
        exact == (D * arcArgs.n) % TwoPi = 0
        last == Len(arcPts)
    IN IF exact
         THEN last = ns + 1 /\ (last >= 2 => arcPts[last] # arcPts[last - 1])
         ELSE last = ns + 2

\* The angles a list of points sweeps from its first point in the direction d.
SweptSet(pts, d) ==
  {(pts[1].ang + d * t) % TwoPi : t \in 0..SweepOffset(pts, pts[1].ang, d, Len(pts))}

\* C10: in each polygon of the curved cell (radii positive) the backward arc
\* sweeps the sector the forward arc sweeps, in the opposite direction.
C10_BackwardArcSameSector ==
  pc = "curve_produced" =>
    \A k \in 1..Len(curveShapes) :
      LET ring == curveShapes[k].ring
          fwd == SubSeq(ring.pts, 1, ring.split)
          bwd == SubSeq(ring.pts, ring.split + 1, Len(ring.pts))
      IN (ring.R1 > 0 /\ ring.R2 > 0) =>
           \E d \in {0 - 1, 1} :
             /\ Monotone(fwd, fwd[1].ang, d)
             /\ Monotone(bwd, bwd[1].ang, 0 - d)
             /\ SweptSet(fwd, d) = SweptSet(bwd, 0 - d)

\* ------------------------------------------------------ path claims' terms
NumCorners == Len(wg.path) - 2
SegLen(j) == distance(P(wg.path, j), P(wg.path, j + 1))
\* Corner c (0-based, at waypoint c+1) is a proper right-angle turn.
RightAngle(c) ==
  LET v1 == corner_v1(wg.path, c)
      v2 == corner_v2(wg.path, c)
  IN /\ VAbs(v1) # Zero /\ VAbs(v2) # Zero
     /\ NAdd(NMul(v1.x, v2.x), NMul(v1.y, v2.y)) = Zero
\* ru for a right-angle corner at waypoint j, nothing elsewhere.
CutAt(j) ==
  IF j >= 1 /\ j <= NumCorners /\ RightAngle(j - 1) THEN N(wg.ru) ELSE Zero
\* Every corner is a right-angle turn and every segment is long enough for the
\* cuts at its two ends.
NonDegenerate == \A c \in 0..(NumCorners - 1) : RightAngle(c)
Feasible ==
  \A j \in 0..(Len(wg.path) - 2) : ~NLess(SegLen(j), NAdd(CutAt(j), CutAt(j + 1)))
IsStraight(inst) == inst.cell = "Waveguide streight"
IsCurve(inst) == inst.cell = "Waveguide curved"

\* The cells of a completed decomposition: 2k-3 of them, straight and curved
\* in turn, the last straight ending at the final waypoint.
Decomposed ==
  LET k == Len(wg.path) IN
    /\ Len(insts) = 2 * k - 3
    /\ \A j \in 1..Len(insts) :
         IF j % 2 = 1 THEN IsStraight(insts[j]) ELSE IsCurve(insts[j])
    /\ straight_end(insts[Len(insts)]) = wg.path[k]
    /\ (k = 2 =>
          /\ insts[1].trans.disp = wg.path[1]
          /\ insts[1].l = distance(wg.path[1], wg.path[2]))

\* C2 as stated: every call, on every path, emits the full decomposition.
C2_Original == pc \in {"done", "raised"} => Decomposed

\* C2 amended: every call that runs to completion has emitted k-1 straight and
\* k-2 curved cells, in the order straight, curve, ..., straight, the last
\* straight ending at the final waypoint; a two-waypoint path gives a single
\* straight at the first waypoint, as long as the waypoint distance.
C2_CompletedDecomposition == pc = "done" => Decomposed

\* C2 witness: a completed path with two corners, and a completed two-waypoint path.
C2_Witness ==
  /\ pc = "done"
  /\ Len(wg.path) = 4
  /\ RightAngle(0) /\ RightAngle(1)

\* C3: on a feasible path without degenerate corners the cells form a chain:
\* the straight before a corner ends where the arc of radius ru of the curved
\* cell begins, and that arc ends where the next straight starts.
C3_ContinuousChain ==
  (pc \in {"loop", "done"} /\ Feasible /\ NonDegenerate) =>
    \A c \in 1..(Len(insts) \div 2) :
      /\ straight_end(insts[2 * c - 1]) = fillet_begin(insts[2 * c])
      /\ 2 * c + 1 <= Len(insts) =>
           fillet_end(insts[2 * c]) = insts[2 * c + 1].trans.disp
      /\ 2 * c = Len(insts) => fillet_end(insts[2 * c]) = segment_last

\* C3 witness: a completed feasible path with a left and a right turn whose
\* angle differences are -3*pi/2 and +3*pi/2.
C3_Witness ==
  /\ pc = "done" /\ Feasible /\ NonDegenerate
  /\ Len(wg.path) = 4
  /\ corner_dalpha(wg.path, 0) = 0 - (Half + Quarter) /\ corner_sign(wg.path, 0) = 1
  /\ corner_dalpha(wg.path, 1) = Half + Quarter /\ corner_sign(wg.path, 1) = 0 - 1

\* C4: at every right-angle corner the cut is ru, so that the straight cell of
\* segment j is as long as the segment less ru for each right-angle corner at
\* its ends.
C4_StraightLengths ==
  pc = "done" =>
    /\ \A c \in 0..(NumCorners - 1) : RightAngle(c) => corner_cut(wg.path, c, wg.ru) = N(wg.ru)
    /\ \A j \in 0..(Len(wg.path) - 2) :
         insts[2 * j + 1].l = NSub(SegLen(j), NAdd(CutAt(j), CutAt(j + 1)))

\* C5: a bend radius too large for the path ends the call with an error, and no
\* straight cell has a negative length or points against its segment.
C5_InfeasibleDetected ==
  /\ (pc = "done" /\ ~Feasible) => exc = "infeasible bend radius"
  /\ \A j \in 1..Len(insts) :
       (IsStraight(insts[j]) /\ VAbs(corner_v1(wg.path, (j - 1) \div 2)) # Zero) =>
         /\ ~NLess(insts[j].l, Zero)
         /\ insts[j].l # Zero =>
              insts[j].trans.rot = Degrees(corner_alpha1(wg.path, (j - 1) \div 2))

\* ------------------------------------------------------ parameter sets
\* The class the specification names for each tag.
ClassOfTag ==
  ("wave_equation" :> "ElmerVectorHelmholtzSolution") @@
  ("capacitance" :> "ElmerCapacitanceSolution") @@
  ("cross-section" :> "ElmerCrossSectionSolution")

\* The keyword arguments the constructor of class c accepts.
ValidParams(c, params) ==
  /\ DOMAIN params \subseteq DOMAIN class_fields(c)
  /\ (c = "ElmerVectorHelmholtzSolution" /\ "frequency" \in DOMAIN params) =>
       params["frequency"].t # "NoneType"

\* C7: get_elmer_solution picks among exactly three classes with distinct
\* tags by exact match: a registered tag (capacitance when none is given)
\* gives an instance of its class, any other tag, the empty tag of the base
\* class included, gives a ValueError and no instance.
C7_SchemaSelection ==
  /\ Len(SolutionClasses) = 3
  /\ \A j, k \in 1..Len(SolutionClasses) :
       j # k => class_tool(SolutionClasses[j]) # class_tool(SolutionClasses[k])
  /\ {class_tool(SolutionClasses[k]) : k \in 1..Len(SolutionClasses)} = DOMAIN ClassOfTag
  /\ call # NoCall =>
       /\ ~call.given => call.tool = "capacitance"
       /\ IF call.tool \in DOMAIN ClassOfTag
            THEN /\ exc # "ValueError"
                 /\ sol # << >> => sol[1].cls = ClassOfTag[call.tool]
                 /\ ValidParams(ClassOfTag[call.tool], call.params) =>
                      (sol # << >> /\ exc = "none")
            ELSE exc = "ValueError" /\ sol = << >>

\* C7 witness: the default tag gave a capacitance instance, after which the
\* instance was used.
C7_Witness ==
  /\ ~call.given /\ call # NoCall
  /\ sol # << >> /\ sol[1].cls = "ElmerCapacitanceSolution"
  /\ solData # << >>

IsWave == sol # << >> /\ sol[1].cls = "ElmerVectorHelmholtzSolution"

ExpectedFrequency ==
  IF "frequency" \in DOMAIN call.params
    THEN V("list", call.params["frequency"].v)
    ELSE V("list", << "5" >>)

Serialises(m, obj) ==
  /\ "name" \in DOMAIN obj.dict
  /\ DOMAIN m = (DOMAIN obj.dict \ {"name"}) \cup {"solution_name", "tool"}
  /\ "name" \notin DOMAIN m
  /\ \A k \in DOMAIN obj.dict \ {"name"} : m[k] = obj.dict[k]
  /\ m["solution_name"] = obj.dict["name"]
  /\ m["tool"] = PyStr(CHOOSE t \in DOMAIN ClassOfTag : ClassOfTag[t] = obj.cls)

\* C9: get_solution_data returns the fields of the instance under their names
\* with their current values, name under solution_name and not under name,
\* and tool with the tag of the class; it leaves the instance as it was, so
\* that a second call returns an equal mapping.
C9_SolutionData ==
  [][op' = "get_solution_data" =>
       /\ sol' = sol
       /\ Serialises(solData'[1], sol[1])
       /\ op = "get_solution_data" => solData' = solData]_vars

\* C9 witness: a serialised instance whose name and frequency were assigned to.
C9_Witness ==
  /\ op = "get_solution_data"
  /\ {"name", "frequency"} \subseteq assigned
  /\ solData[1]["solution_name"] = PyStr("sim2")

====
